---- MODULE Spec2Model ----
(***************************************************************************)
(* A model of build.py of fedora-appstream: the Build class that turns the *)
(* files of a package into the accepted application records of a catalog. *)
(* Strings the code matches or sorts (ids, paths, package names, URLs) are *)
(* sequences of one-character strings, so that fnmatch, glob, startswith,  *)
(* split and sort are computed as the code computes them.                  *)
(***************************************************************************)
EXTENDS Integers, Sequences, FiniteSets, TLC

VARIABLES
    argv,             \* sys.argv[1:]: the package archives given on the command line
    environ,          \* os.environ and the files outside the staging tree
    pc,               \* position of main()/build(): "main", "files", "emit", "exit", "raised"
    n,                \* index in argv of the package main() is building
    application_ids,  \* Build.application_ids
    has_valid_content,\* Build.has_valid_content
    status_html,      \* Build.status_html: TRUE once logs/status.html is open
    valid_apps,       \* build()'s local list valid_apps
    files,            \* build()'s local list files
    i,                \* index in files of the file the loop of build() reads next
    tmp,              \* the staging tree ./tmp
    icons,            \* the icon staging area ./icons
    appstream,        \* the output directory ./appstream
    last              \* the last call of add_application: argument, result, log

vars == << argv, environ, pc, n, application_ids, has_valid_content, status_html,
           valid_apps, files, i, tmp, icons, appstream, last >>

----------------------------------------------------------------------------
(* Strings *)

\* The characters used, in ASCII order (str comparison of files.sort()).
Alphabet == << "*", "-", ".", "/", "0", "1", "2", "3", "4", "5", "6", "7", "8",
               "9", ":", "?", "a", "b", "c", "d", "e", "f", "g", "h", "i", "j",
               "k", "l", "m", "n", "o", "p", "q", "r", "s", "t", "u", "v", "w",
               "x", "y", "z" >>

Ord(c) == CHOOSE k \in 1..Len(Alphabet) : Alphabet[k] = c

\* s < t for Python str: the first differing character decides, a proper
\* prefix is smaller.
RECURSIVE StrLess(_, _)
StrLess(s, t) ==
    IF t = << >> THEN FALSE
    ELSE IF s = << >> THEN TRUE
    ELSE IF Head(s) # Head(t) THEN Ord(Head(s)) < Ord(Head(t))
    ELSE StrLess(Tail(s), Tail(t))

\* s.startswith(p)
StartsWith(s, p) == Len(s) >= Len(p) /\ SubSeq(s, 1, Len(p)) = p

\* s.split('/'): the components of s between the slashes.
RECURSIVE Split(_)
Split(s) ==
    IF \A k \in 1..Len(s) : s[k] # "/" THEN << s >>
    ELSE LET k == CHOOSE j \in 1..Len(s) :
                      s[j] = "/" /\ \A m \in 1..(j - 1) : s[m] # "/"
         IN  << SubSeq(s, 1, k - 1) >> \o Split(SubSeq(s, k + 1, Len(s)))

\* s.split('/')[-1]
Basename(s) == Split(s)[Len(Split(s))]

\* fnmatch.fnmatch(name, pat) on POSIX (normcase is the identity): "*" matches
\* any run of characters, "?" any one character, another character itself,
\* and the whole name must match.
RECURSIVE fnmatch(_, _)
fnmatch(name, pat) ==
    IF pat = << >> THEN name = << >>
    ELSE IF Head(pat) = "*"
         THEN \E k \in 0..Len(name) :
                  fnmatch(SubSeq(name, k + 1, Len(name)), Tail(pat))
    ELSE IF name = << >> THEN FALSE
    ELSE IF Head(pat) = "?" \/ Head(pat) = Head(name)
         THEN fnmatch(Tail(name), Tail(pat))
    ELSE FALSE

\* glob.glob(pat): a path matches when it has as many components as the pattern
\* and each component matches the pattern's component ("*" does not cross "/").
globmatch(path, pat) ==
    /\ Len(Split(path)) = Len(Split(pat))
    /\ \A k \in 1..Len(Split(pat)) : fnmatch(Split(path)[k], Split(pat)[k])

\* list.sort() of a list of strings: each element is put behind the elements
\* of the sorted rest that are not greater.
RECURSIVE Insert(_, _)
Insert(x, list) ==
    IF list = << >> THEN << x >>
    ELSE IF StrLess(x, Head(list)) THEN << x >> \o list
    ELSE << Head(list) >> \o Insert(x, Tail(list))

RECURSIVE Sorted(_)
Sorted(list) ==
    IF list = << >> THEN << >>
    ELSE Insert(list[Len(list)], Sorted(SubSeq(list, 1, Len(list) - 1)))

\* The list a glob.glob or a directory listing returns for the files S; its
\* order is the file system's.
RECURSIVE Listing(_)
Listing(S) ==
    IF S = {} THEN << >>
    ELSE LET x == CHOOSE y \in S : TRUE IN << x >> \o Listing(S \ {x})

\* The keys of a dict, and the empty dict.  Python's None, {} and '' are all
\* false in "if tmp:"; a getter's None is the empty value of its type here.
EmptyDict == [k \in {} |-> ""]
Keys(d) == DOMAIN d

----------------------------------------------------------------------------
(* Config: the options the code reads from self.cfg *)

\* self.cfg.get_id_blacklist(): "x*"
cfg_id_blacklist == << << "x", "*" >> >>

\* self.cfg.get_package_blacklist(): "bl*"
cfg_package_blacklist == << << "b", "l", "*" >> >>

\* self.cfg.get_content_licences()
cfg_content_licences == { "CC0", "CC-BY" }

\* self.cfg.get_interesting_installed_files(), relative to ./tmp: "/*", "/kde4/*"
cfg_interesting_installed_files ==
    << << "/", "*" >>, << "/", "k", "d", "e", "4", "/", "*" >> >>

\* self.cfg.get_package_data_list(): ("ap*", "data")
cfg_package_data_list ==
    << << << "a", "p", "*" >>, << "d", "a", "t", "a" >> >> >>

----------------------------------------------------------------------------
(* The project groups of add_application *)

s_http   == << "h", "t", "t", "p" >>
s_css    == << ":", "/", "/" >>
s_org    == << ".", "o", "r", "g" >>
s_gnome  == << "g", "n", "o", "m", "e" >>
s_kde    == << "k", "d", "e" >>
s_xfce   == << "x", "f", "c", "e" >>
s_lxde   == << "l", "x", "d", "e" >>
s_mate   == << "m", "a", "t", "e", "-", "d", "e", "s", "k", "t", "o", "p" >>
s_sfnet  == << ".", "s", "o", "u", "r", "c", "e", "f", "o", "r", "g", "e",
              ".", "n", "e", "t", "/" >>
s_star   == << "*" >>

\* The lists project_urls of add_application, in the order the code runs them.
project_urls ==
    << [ group |-> "GNOME",
         urls  |-> << s_http \o s_star \o s_css \o s_star \o << "." >> \o s_gnome
                          \o s_org \o s_star,
                      s_http \o s_css \o s_gnome \o << "-", "*" >> \o s_sfnet >> ],
       [ group |-> "KDE",
         urls  |-> << s_http \o s_star \o s_css \o s_star \o << "." >> \o s_kde
                          \o s_org \o s_star,
                      s_http \o s_css \o s_star \o s_kde \o << "-", "a", "p", "p", "s" >>
                          \o s_org \o << "/", "*" >> >> ],
       [ group |-> "XFCE",
         urls  |-> << s_http \o s_css \o s_star \o s_xfce \o s_org \o s_star >> ],
       [ group |-> "LXDE",
         urls  |-> << s_http \o s_css \o s_lxde \o s_org \o s_star,
                      s_http \o s_css \o s_lxde \o s_sfnet \o s_star >> ],
       [ group |-> "MATE",
         urls  |-> << s_http \o s_css \o s_star \o s_mate \o s_org \o s_star >> ] >>

\* A loop that leaves a group assigned by a loop before it.
GroupLoopFirst(project_group, homepage_url, g) ==
    IF project_group = "" /\ \E k \in 1..Len(g.urls) : fnmatch(homepage_url, g.urls[k])
    THEN g.group
    ELSE project_group

\* One "for m in project_urls" loop: every matching pattern assigns the group.
GroupLoop(project_group, homepage_url, g) ==
    IF \E k \in 1..Len(g.urls) : fnmatch(homepage_url, g.urls[k])
    THEN g.group
    ELSE project_group

\* The five loops one after the other, from loop k on.
RECURSIVE GroupLoops(_, _, _)
GroupLoops(project_group, homepage_url, k) ==
    IF k > Len(project_urls) THEN project_group
    ELSE GroupLoops(GroupLoop(project_group, homepage_url, project_urls[k]),
                    homepage_url, k + 1)

\* "use the homepage to filter out same more generic apps"
InferProjectGroup(app) ==
    LET homepage_url == IF "homepage" \in Keys(app.urls)
                        THEN app.urls["homepage"] ELSE << >>
    IN  IF homepage_url # << >> /\ app.project_group = ""
        THEN LET pg == GroupLoops(app.project_group, homepage_url, 1)
             IN  [ app EXCEPT !.project_group = pg,
                              !.log = IF pg # "" THEN Append(@, "assigned") ELSE @ ]
        ELSE app

----------------------------------------------------------------------------
(* Build.add_use_appdata_file *)

\* app.log.write(level, message): the messages are kept by their key words.
LogWrite(app, message) == [ app EXCEPT !.log = Append(@, message) ]

\* The urls are replaced as the names are.
UpdateUrlsReplace(urls, tmp_urls) == tmp_urls

\* "for key in tmp: app.urls[key] = tmp[key]"
UpdateUrls(urls, tmp_urls) ==
    [ key \in Keys(urls) \cup Keys(tmp_urls) |->
          IF key \in Keys(tmp_urls) THEN tmp_urls[key] ELSE urls[key] ]

\* "for image in tmp: app.add_screenshot_url(image)"
AddScreenshotUrls(screenshots, images) ==
    screenshots \o [ k \in 1..Len(images) |-> [ kind |-> "url", src |-> images[k] ] ]

\* "for c in data.get_compulsory_for_desktop(): if c not in ...: append(c)"
RECURSIVE AddCompulsory(_, _)
AddCompulsory(compulsory, cs) ==
    IF cs = << >> THEN compulsory
    ELSE AddCompulsory(IF \E k \in 1..Len(compulsory) : compulsory[k] = Head(cs)
                       THEN compulsory
                       ELSE Append(compulsory, Head(cs)),
                       Tail(cs))

\* The "if tmp:" is left out.
OverrideAlways(native, tmp_dict) == tmp_dict

\* "tmp = data.get_names(); if tmp: app.names = tmp", and so for the summaries.
Override(native, tmp_dict) == IF tmp_dict # EmptyDict THEN tmp_dict ELSE native

\* The descriptions are assigned as the names are, under "if tmp:".
SetDescriptionsIfAny(descriptions, tmp_dict) ==
    IF tmp_dict # EmptyDict THEN tmp_dict ELSE descriptions

\* "app.descriptions = data.get_descriptions()"
SetDescriptions(descriptions, tmp_dict) == tmp_dict

\* Lines 110-139: the fields of a sidecar that passed the gates are applied.
ApplyAppData(app, data) ==
    LET a1 == [ app EXCEPT !.names = Override(@, data.names) ]
        a2 == [ a1 EXCEPT !.comments = Override(@, data.summaries) ]
        a3 == IF data.urls # EmptyDict
              THEN [ a2 EXCEPT !.urls = UpdateUrls(@, data.urls) ] ELSE a2
        a4 == IF data.project_group # ""
              THEN [ a3 EXCEPT !.project_group = data.project_group ] ELSE a3
        a5 == [ a4 EXCEPT !.descriptions = SetDescriptions(@, data.descriptions) ]
        a6 == [ a5 EXCEPT
                  !.log = @ \o [ k \in 1..Len(data.screenshots) |-> "downloading" ],
                  !.screenshots = AddScreenshotUrls(@, data.screenshots) ]
    IN  [ a6 EXCEPT !.compulsory_for_desktop =
                        AddCompulsory(@, data.compulsory_for_desktop) ]

\* The licence of the sidecar is not looked at.
UseAppDataAnyLicence(app, data, validator) ==
    IF ~data.parsed
    THEN LogWrite(app, "could not be parsed")
    ELSE LET v == IF validator /\ ~data.validates
                  THEN LogWrite(app, "did not validate") ELSE app
         IN  IF data.id # app.app_id /\ data.id # app.app_id_full
             THEN LogWrite(v, "id does not match")
             ELSE ApplyAppData(v, data)

\* add_use_appdata_file(app, filename), data being what AppData.extract reads
\* from filename and validator whether /usr/bin/appdata-validate exists.
add_use_appdata_file(app, data, validator) ==
    IF ~data.parsed
    THEN LogWrite(app, "could not be parsed")
    ELSE LET v == IF validator /\ ~data.validates
                  THEN LogWrite(app, "did not validate") ELSE app
         IN  IF data.id # app.app_id /\ data.id # app.app_id_full
             THEN LogWrite(v, "id does not match")
             ELSE IF data.licence \notin cfg_content_licences
             THEN LogWrite(v, "licence is not okay")
             ELSE ApplyAppData(v, data)

----------------------------------------------------------------------------
(* Build.add_application *)

\* The id is compared with the pattern instead of matched against it.
BlacklistedExact(app_id) ==
    \E k \in 1..Len(cfg_id_blacklist) : app_id = cfg_id_blacklist[k]

\* "for b in self.cfg.get_id_blacklist(): if fnmatch.fnmatch(app.app_id, b)"
Blacklisted(app_id) ==
    \E k \in 1..Len(cfg_id_blacklist) : fnmatch(app_id, cfg_id_blacklist[k])

\* "app.app_id in self.application_ids"
InList(x, list) == \E k \in 1..Len(list) : list[k] = x

\* The id is not appended.
NoRegister(ids, app_id) == ids

\* "self.application_ids.append(app.app_id)"
Register(ids, app_id) == Append(ids, app_id)

\* The "elif" is left out.
RequiresMissingNever(app, sidecar, data) == FALSE

\* A sidecar that does not parse counts as a missing one.
RequiresMissingOrUnparsed(app, sidecar, data) ==
    (sidecar = "none" \/ ~data.parsed) /\ app.requires_appdata

\* "elif app.requires_appdata": no sidecar file exists and the record needs
\* one; data, what the file read holds, is not asked.
RequiresMissing(app, sidecar, data) == sidecar = "none" /\ app.requires_appdata

\* os.remove(appdata_extra_file)
Remove(dir, key) == [ k \in (DOMAIN dir) \ {key} |-> dir[k] ]

s_png == << "*", ".", "p", "n", "g" >>

\* "app.screenshots = []" is left out: the overrides are added to the list.
ScreenshotOverridesAdded(app, screenshots_extra) ==
    IF app.app_id \in DOMAIN screenshots_extra
    THEN LET overrides == Sorted(Listing({ f \in screenshots_extra[app.app_id] :
                                              fnmatch(f, s_png) }))
         IN  [ app EXCEPT
                 !.log = Append(@, "screenshot overrides"),
                 !.screenshots =
                     @ \o [ k \in 1..Len(overrides) |->
                               [ kind |-> "file", src |-> overrides[k] ] ] ]
    ELSE app

\* Lines 236-244: the images *.png of ../screenshots-extra/<id>, sorted,
\* replace the list.
ScreenshotOverrides(app, screenshots_extra) ==
    IF app.app_id \in DOMAIN screenshots_extra
    THEN LET overrides == Sorted(Listing({ f \in screenshots_extra[app.app_id] :
                                              fnmatch(f, s_png) }))
         IN  [ app EXCEPT
                 !.log = Append(@, "screenshot overrides"),
                 !.screenshots =
                     [ k \in 1..Len(overrides) |->
                           [ kind |-> "file", src |-> overrides[k] ] ] ]
    ELSE app

\* The icon is not asked for.
MissingFieldNoIcon(app) ==
    IF "C" \notin Keys(app.names) THEN "ignored as no Name"
    ELSE IF "C" \notin Keys(app.comments) THEN "ignored as no Comment"
    ELSE ""

\* Lines 221-234: the message of the first required field the record lacks,
\* "" when it has its name, its summary and its icon.
MissingField(app) ==
    IF "C" \notin Keys(app.names) THEN "ignored as no Name"
    ELSE IF "C" \notin Keys(app.comments) THEN "ignored as no Comment"
    ELSE IF app.icon = << >> THEN "ignored as no Icon"
    ELSE ""

\* Lines 247-248 are left out: the flag is not set.
CheckAndAcceptNoFlag(r, app, fs) ==
    IF MissingField(app) # ""
    THEN [ r EXCEPT !.app = LogWrite(app, MissingField(app)) ]
    ELSE [ r EXCEPT
             !.ret = TRUE,
             !.app = [ ScreenshotOverrides(app, fs.screenshots_extra)
                           EXCEPT !.status_html = TRUE ],
             !.stats = Append(@, "screenshots-extra"),
             !.status_html = TRUE ]

\* Lines 221-255, from the required fields on; r holds what the call has done
\* so far and app the record after the project group was assigned.
CheckAndAccept(r, app, fs) ==
    IF MissingField(app) # ""
    THEN [ r EXCEPT !.app = LogWrite(app, MissingField(app)) ]
    ELSE [ r EXCEPT
             !.ret = TRUE,
             !.app = [ ScreenshotOverrides(app, fs.screenshots_extra)
                           EXCEPT !.status_html = TRUE ],
             !.stats = Append(@, "screenshots-extra"),
             !.has_valid_content = TRUE,
             !.status_html = TRUE ]

\* The extra sidecar is read whenever it exists, and is never deleted.
FindAppDataExtraFirst(app, fs) ==
    LET key      == << app.type_id, app.app_id >>
        in_tmp   == app.app_id \in DOMAIN fs.appdata
        in_extra == key \in DOMAIN fs.appdata_extra
    IN  [ deleted       |-> FALSE,
          appdata_extra |-> fs.appdata_extra,
          stats         |-> << "appdata-extra" >>,
          sidecar       |-> IF in_extra THEN "appdata-extra"
                            ELSE IF in_tmp THEN "appdata" ELSE "none",
          data          |-> IF in_extra THEN fs.appdata_extra[key]
                            ELSE IF in_tmp THEN fs.appdata[app.app_id]
                            ELSE [ parsed |-> FALSE ] ]

\* Lines 160-176: which sidecar file is read, after the extra one was deleted
\* when the package ships its own.  stats lists the os.path.exists calls.
FindAppData(app, fs) ==
    LET key      == << app.type_id, app.app_id >>
        in_tmp   == app.app_id \in DOMAIN fs.appdata
        in_extra == key \in DOMAIN fs.appdata_extra
        both     == in_tmp /\ in_extra
        extra    == IF both THEN Remove(fs.appdata_extra, key) ELSE fs.appdata_extra
        use      == key \in DOMAIN extra
    IN  [ deleted       |-> both,
          appdata_extra |-> extra,
          stats         |-> (IF in_tmp THEN << "appdata", "appdata-extra" >>
                                       ELSE << "appdata" >>)
                            \o << "appdata-extra" >>
                            \o << IF use THEN "appdata-extra" ELSE "appdata" >>,
          sidecar       |-> IF use THEN "appdata-extra"
                            ELSE IF in_tmp THEN "appdata" ELSE "none",
          data          |-> IF use THEN extra[key]
                            ELSE IF in_tmp THEN fs.appdata[app.app_id]
                            ELSE [ parsed |-> FALSE ] ]

\* add_application(app) on the Build object self, with the files fs it looks
\* at.  The result holds the return value ret, the record app as the call
\* leaves it, the fields of self and the directory appdata-extra after the
\* call; stats, sidecar, data (the sidecar read) and merged (the record as the
\* override merge left it) trace the call.
add_application(self, app, fs) ==
    LET r0 == [ ret               |-> FALSE,
                app               |-> app,
                application_ids   |-> self.application_ids,
                has_valid_content |-> self.has_valid_content,
                status_html       |-> self.status_html,
                appdata_extra     |-> fs.appdata_extra,
                stats             |-> << >>,
                sidecar           |-> "none",
                data              |-> [ parsed |-> FALSE ],
                merged            |-> app ]
    IN  IF Blacklisted(app.app_id)
        THEN [ r0 EXCEPT !.app = LogWrite(app, "application is blacklisted") ]
        ELSE IF InList(app.app_id, self.application_ids)
        THEN [ r0 EXCEPT !.app = LogWrite(app, "duplicate ID") ]
        ELSE
          LET f  == FindAppData(app, fs)
              a1 == IF f.deleted THEN LogWrite(app, "deleting") ELSE app
              r1 == [ r0 EXCEPT
                        !.application_ids = Register(@, app.app_id),
                        !.appdata_extra = f.appdata_extra,
                        !.stats = f.stats,
                        !.sidecar = f.sidecar,
                        !.data = f.data ]
          IN  IF RequiresMissing(app, f.sidecar, f.data)
              THEN [ r1 EXCEPT !.app = LogWrite(a1, "requires AppData"),
                               !.merged = a1 ]
              ELSE
                LET a2 == IF f.sidecar # "none"
                          THEN add_use_appdata_file(a1, f.data, fs.validator)
                          ELSE a1
                IN  CheckAndAccept([ r1 EXCEPT !.merged = a2 ],
                                   InferProjectGroup(a2), fs)

----------------------------------------------------------------------------
(* The inputs: records as the parsers build them, sidecars, packages *)

\* app.app_id is None
NoId == << >>

\* Package names and file paths.
p_lib  == << "l", "i", "b" >>
p_app  == << "a", "p", "p" >>
p_blk  == << "b", "l", "k" >>
p_gst  == << "g", "s", "t", "r", "e", "a", "m", "e", "r", "1" >>
p_data == << "d", "a", "t", "a" >>
s_gstreamer == << "g", "s", "t", "r", "e", "a", "m", "e", "r" >>

f_a     == << "/", "a", ".", "d" >>
f_b     == << "/", "b", ".", "d" >>
f_kde_a == << "/", "k", "d", "e", "4", "/", "a", ".", "d" >>
f_x     == << "/", "x", ".", "d" >>
Paths   == { f_a, f_b, f_kde_a, f_x }

\* Homepages: of one group each, of no group, and of two groups at once.
u_gnome   == s_http \o s_css \o << "a", "." >> \o s_gnome \o s_org
u_gnomesf == s_http \o s_css \o s_gnome \o << "-", "a" >> \o s_sfnet
u_kde     == s_http \o << "s" >> \o s_css \o << "a", "." >> \o s_kde \o s_org \o << "/" >>
u_kdeapps == s_http \o s_css \o s_kde \o << "-", "a", "p", "p", "s" >> \o s_org \o << "/", "a" >>
u_xfce    == s_http \o s_css \o s_xfce \o s_org
u_lxde    == s_http \o s_css \o s_lxde \o s_org \o << "/" >>
u_lxdesf  == s_http \o s_css \o s_lxde \o s_sfnet
u_mate    == s_http \o s_css \o s_mate \o s_org
u_other   == s_http \o s_css \o << "a" >> \o s_org
u_gnome_xfce == s_http \o s_css \o << "a", "." >> \o s_gnome \o s_org \o << "/" >>
                    \o s_xfce \o s_org
u_kde_gnome  == s_http \o s_css \o << "a", "." >> \o s_kde \o s_org \o << "." >>
                    \o s_gnome \o s_org
u_bug     == s_http \o s_css \o << "b" >> \o s_org
Homepages == { u_gnome, u_gnomesf, u_kde, u_kdeapps, u_xfce, u_lxde, u_lxdesf,
               u_mate, u_other, u_gnome_xfce, u_kde_gnome }

Dict1(k, v) == [ x \in {k} |-> v ]
names_A  == Dict1("C", "A")
names_B  == [ l \in {"C", "de"} |-> IF l = "C" THEN "B" ELSE "Bd" ]
names_de == Dict1("de", "D")
UrlsHB(h, b) == [ k \in {"homepage", "bugtracker"} |-> IF k = "homepage" THEN h ELSE b ]

\* A record as a parser leaves it, before set_id.
App(type_id, names, comments, icon, urls, project_group, requires_appdata) ==
    [ app_id                 |-> NoId,
      app_id_full            |-> NoId,
      type_id                |-> type_id,
      names                  |-> names,
      comments               |-> comments,
      descriptions           |-> Dict1("C", "native"),
      icon                   |-> icon,
      urls                   |-> urls,
      project_group          |-> project_group,
      compulsory_for_desktop |-> << "XFCE" >>,
      screenshots            |-> << >>,
      requires_appdata       |-> requires_appdata,
      status_html            |-> FALSE,
      log                    |-> << >> ]

\* app.set_id(name): the full id is the file name, the id the file name
\* without its extension.
set_id(app, name) ==
    LET dots == { k \in 1..Len(name) : name[k] = "." }
        cut  == IF dots = {} THEN Len(name) + 1
                ELSE CHOOSE k \in dots : \A m \in dots : m <= k
    IN  [ app EXCEPT !.app_id_full = name, !.app_id = SubSeq(name, 1, cut - 1) ]

\* The ids the files of Paths give.
id_a == << "a" >>
id_b == << "b" >>
id_x == << "x" >>
id_c == << "c" >>

i_png == << "i" >>

\* The sidecars that can lie at <id>.appdata.xml, for a record of full id full.
AppDataDoc(id, licence, names, summaries, urls, project_group, descriptions, screenshots, compulsory, validates) ==
    [ parsed |-> TRUE, validates |-> validates, id |-> id, licence |-> licence,
      names |-> names, summaries |-> summaries, urls |-> urls,
      project_group |-> project_group, descriptions |-> descriptions,
      screenshots |-> screenshots, compulsory_for_desktop |-> compulsory ]

d_bad == [ parsed |-> FALSE ]
d_all(id) ==
    AppDataDoc(id, "CC0", names_B, Dict1("C", "S"), UrlsHB(u_kde, u_bug), "",
               Dict1("C", "long"), << "s1", "s2" >>, << "GNOME", "XFCE" >>, FALSE)
d_mismatch == d_all(<< "z", "z" >>)
d_licence(id) == [ d_all(id) EXCEPT !.licence = "GPL" ]
d_empty(id) ==
    AppDataDoc(id, "CC-BY", EmptyDict, EmptyDict, EmptyDict, "", EmptyDict,
               << >>, << >>, TRUE)
d_noC(id) == [ d_empty(id) EXCEPT !.names = names_de,
                                  !.urls = Dict1("bugtracker", u_bug) ]
d_group(id) == [ d_empty(id) EXCEPT !.project_group = "KDE",
                                    !.summaries = Dict1("C", "S") ]
d_home(id) == [ d_empty(id) EXCEPT !.urls = Dict1("homepage", u_gnome_xfce) ]

RichDocs(id, full) ==
    { d_bad, d_mismatch, d_licence(id), d_all(id), d_all(full), d_empty(id),
      d_noC(full), d_group(id), d_home(id) }
SlimDocs(id) == { d_bad, d_all(id) }

\* A directory: the files of names ks, each with a content of vs.
Dirs(ks, vs) == UNION { [ d -> vs ] : d \in SUBSET ks }

----------------------------------------------------------------------------
(* The runs checked: the command lines and the files around them *)

\* The most packages on a command line, and the most files in one package.
MaxPkgs  == 2
MaxFiles == 3

Entry(content_type, parse_ok, app) ==
    [ content_type |-> content_type, parse_ok |-> parse_ok, app |-> app ]

comments_c == Dict1("C", "c")

\* What the file at path can hold: a desktop file with or without an icon, a
\* font that needs a sidecar, a symlink; at kde4/ a record that names its id
\* itself; at x.d the other content types and a file that does not parse.
Variants(path) ==
    LET icon == set_id(App("", EmptyDict, EmptyDict, << >>, EmptyDict, "", FALSE),
                       Basename(path)).app_id
        ok   == App("desktop", names_A, comments_c, icon,
                    Dict1("homepage", u_gnome), "", FALSE)
    IN  { Entry("application/x-desktop", TRUE, ok) }
        \cup
        ( IF path = f_x
          THEN { Entry("text/plain", TRUE, ok),
                 Entry("application/x-desktop", FALSE, ok),
                 Entry("application/x-font-otf", TRUE, [ ok EXCEPT !.type_id = "font" ]),
                 Entry("application/xml", TRUE, [ ok EXCEPT !.type_id = "inputmethod" ]),
                 Entry("application/x-sqlite3", TRUE,
                       [ ok EXCEPT !.type_id = "inputmethod" ]) }
          ELSE { Entry("application/x-desktop", TRUE, [ ok EXCEPT !.icon = << >> ]),
                 Entry("application/x-font-ttf", TRUE,
                       [ ok EXCEPT !.type_id = "font", !.requires_appdata = TRUE ]),
                 Entry("inode/symlink", TRUE, ok) } )
        \cup
        ( IF path = f_kde_a
          THEN { Entry("application/x-desktop", TRUE,
                       set_id(ok, << "b", ".", "d" >>)) }
          ELSE { } )

\* The contents a package can have on at most k of the paths.
FilesOf(k) ==
    UNION { { f \in [ S -> UNION { Variants(q) : q \in S } ] :
                  \A q \in S : f[q] \in Variants(q) } :
            S \in { T \in SUBSET Paths : Cardinality(T) <= k } }

NoCodec == [ parse_ok |-> FALSE ]

Package(name, corrupt, fs, appdata, codec) ==
    [ name |-> name, corrupt |-> corrupt, files |-> fs, appdata |-> appdata,
      codec |-> codec ]

Environ(debug, extract_package, validator, appdata_extra, screenshots_extra, packages) ==
    [ APPSTREAM_DEBUG   |-> debug,
      extract_package   |-> extract_package,
      validator         |-> validator,
      appdata_extra     |-> appdata_extra,
      screenshots_extra |-> screenshots_extra,
      packages          |-> packages ]

World(args, env) == [ argv |-> args, environ |-> env ]

\* One package with one desktop file a.d, over the fields of the record, its
\* homepage, the sidecars in the package and in appdata-extra, and curated
\* screenshots.
FieldApps ==
    { App("desktop", nm, cm, ic, Dict1("bugtracker", u_bug), "", rq) :
          nm \in { EmptyDict, names_A, names_de }, cm \in { EmptyDict, comments_c },
          ic \in { << >>, i_png }, rq \in BOOLEAN }
UrlApps ==
    { App("desktop", names_A, comments_c, i_png, urls, pg, FALSE) :
          urls \in { EmptyDict, UrlsHB(u_xfce, u_bug) }
                       \cup { Dict1("homepage", u) : u \in Homepages },
          pg \in { "", "Mine" } }

OneFileWorlds ==
    { World(<< Package(p_lib, FALSE, Dict1(f_a, Entry("application/x-desktop", TRUE, app)),
                       appdata, NoCodec) >>,
            Environ(FALSE, FALSE, TRUE, extra, shots, { })) :
          app \in FieldApps \cup UrlApps,
          appdata \in Dirs({ id_a }, RichDocs(id_a, << "a", ".", "d" >>)),
          extra \in Dirs({ << "desktop", id_a >> }, SlimDocs(id_a)),
          shots \in Dirs({ id_a }, { { << "2", ".", "p", "n", "g" >>,
                                      << "1", ".", "p", "n", "g" >>,
                                      << "0", ".", "t", "x", "t" >> } }) }

\* One package with up to MaxFiles files.
OnePackageWorlds ==
    { World(<< Package(p_lib, FALSE, fs, appdata, NoCodec) >>,
            Environ(FALSE, FALSE, FALSE, EmptyDict, EmptyDict, { })) :
          fs \in FilesOf(MaxFiles),
          appdata \in Dirs({ id_a }, SlimDocs(id_a)) }

\* Up to MaxPkgs packages on the command line, with and without the debug
\* flag, the extraction helper and a companion package.
SomePackages ==
    LET ok(path) == Entry("application/x-desktop", TRUE,
                          App("desktop", names_A, comments_c,
                              Basename(path), EmptyDict, "", FALSE))
        codec    == [ parse_ok |-> TRUE,
                      app |-> [ App("codec", names_A, comments_c, i_png, EmptyDict,
                                    "", FALSE) EXCEPT !.app_id = id_c,
                                                      !.app_id_full = id_c ] ]
    IN  { Package(p_app, FALSE, Dict1(f_a, ok(f_a)), EmptyDict, NoCodec),
          Package(p_app, FALSE, EmptyDict, EmptyDict, NoCodec),
          Package(p_app, TRUE, Dict1(f_a, ok(f_a)), EmptyDict, NoCodec),
          Package(p_lib, FALSE, Dict1(f_a, ok(f_a)), EmptyDict, NoCodec),
          Package(p_lib, FALSE,
                  Dict1(f_a, [ ok(f_a) EXCEPT !.app.icon = << >> ]),
                  EmptyDict, NoCodec),
          Package(p_lib, FALSE,
                  [ q \in { f_b, f_kde_a } |-> ok(q) ], EmptyDict, NoCodec),
          Package(p_lib, FALSE, Dict1(f_b, ok(f_b)), EmptyDict, NoCodec),
          Package(p_lib, FALSE,
                  Dict1(f_a, [ ok(f_a) EXCEPT !.app.requires_appdata = TRUE ]),
                  EmptyDict, NoCodec),
          Package(p_gst, FALSE, Dict1(f_a, ok(f_a)), EmptyDict, codec),
          Package(p_gst, FALSE, EmptyDict, EmptyDict, NoCodec),
          Package(p_blk, FALSE, Dict1(f_a, ok(f_a)), EmptyDict, NoCodec) }

Companion ==
    Package(p_data, FALSE,
            Dict1(f_b, Entry("application/x-desktop", TRUE,
                             App("desktop", names_A, comments_c, id_b, EmptyDict,
                                 "", FALSE))),
            EmptyDict, NoCodec)

ManyPackageWorlds ==
    { World(args, Environ(flags[1], flags[2], FALSE, EmptyDict, EmptyDict, packages)) :
          args \in UNION { [ 1..k -> SomePackages ] : k \in 1..MaxPkgs },
          flags \in { << FALSE, FALSE >>, << TRUE, FALSE >>, << FALSE, TRUE >> },
          packages \in { { }, { Companion } } }

Worlds == OneFileWorlds \cup OnePackageWorlds \cup ManyPackageWorlds

----------------------------------------------------------------------------
(* package_decompress and Build.build *)

NoTmp   == [ exists |-> FALSE, files |-> EmptyDict, appdata |-> EmptyDict ]
NoIcons == [ exists |-> FALSE, files |-> { } ]
NoCall  == [ op |-> "none" ]

\* The files of b written over those of a.
Overlay(a, b) ==
    [ k \in (DOMAIN a) \cup (DOMAIN b) |-> IF k \in DOMAIN b THEN b[k] ELSE a[k] ]

\* package_decompress(pkg): ../extract-package fails on a corrupt archive and
\* the error is raised; the files of the package are added to ./tmp.
package_decompress(pkg, env, tree) ==
    IF env.extract_package /\ pkg.corrupt
    THEN [ raised |-> TRUE, tmp |-> tree ]
    ELSE [ raised |-> FALSE,
           tmp    |-> [ tree EXCEPT !.files = Overlay(@, pkg.files),
                                    !.appdata = Overlay(@, pkg.appdata) ] ]

\* "for b in self.cfg.get_package_blacklist(): if fnmatch.fnmatch(pkg.name, b)"
PackageBlacklisted(name) ==
    \E k \in 1..Len(cfg_package_blacklist) : fnmatch(name, cfg_package_blacklist[k])

\* Lines 290-293: the interesting files of ./tmp, one glob after the other,
\* sorted.
RECURSIVE InterestingFiles(_, _)
InterestingFiles(tree, k) ==
    IF k > Len(cfg_interesting_installed_files) THEN << >>
    ELSE Listing({ f \in DOMAIN tree.files :
                       globmatch(f, cfg_interesting_installed_files[k]) })
         \o InterestingFiles(tree, k + 1)

\* Lines 297-303: the companion packages of ./packages the data list names
\* for the package are extracted too.
ExtraPackages(name, env) ==
    { extra_pkg \in env.packages :
          \E k \in 1..Len(cfg_package_data_list) :
              /\ fnmatch(name, cfg_package_data_list[k][1])
              /\ fnmatch(extra_pkg.name, cfg_package_data_list[k][2] \o << "*" >>) }

RECURSIVE DecompressAll(_, _, _)
DecompressAll(pkgs, env, d) ==
    IF pkgs = { } \/ d.raised THEN d
    ELSE LET extra_pkg == CHOOSE q \in pkgs : TRUE
         IN  DecompressAll(pkgs \ { extra_pkg }, env,
                           package_decompress(extra_pkg, env, d.tmp))

\* The globs run after the companion packages were extracted.
GlobAfterExtras(main_tree, full_tree) == Sorted(InterestingFiles(full_tree, 1))

\* Lines 290-293 run before lines 297-303: files lists ./tmp as the main
\* package left it, main_tree, not as the companion packages leave it,
\* full_tree.
GlobFiles(main_tree, full_tree) == Sorted(InterestingFiles(main_tree, 1))

\* build(filename) up to the loop over the files: lines 257-307.
BuildBegin ==
    /\ pc = "main"
    /\ n <= Len(argv)
    /\ LET pkg == argv[n]
       IN  IF PackageBlacklisted(pkg.name)
           THEN /\ n' = n + 1
                /\ UNCHANGED << pc, has_valid_content, valid_apps, files, i, tmp,
                                icons, appstream >>
           ELSE LET d1 == package_decompress(pkg, environ, [ NoTmp EXCEPT !.exists = TRUE ])
                    d2 == DecompressAll(ExtraPackages(pkg.name, environ), environ, d1)
                IN  /\ appstream' = [ appstream EXCEPT !.exists = TRUE ]
                    /\ icons' = [ icons EXCEPT !.exists = TRUE ]
                    /\ tmp' = d2.tmp
                    /\ IF d1.raised
                       THEN /\ pc' = "raised"
                            /\ UNCHANGED << files, has_valid_content, valid_apps >>
                       ELSE /\ files' = GlobFiles(d1.tmp, d2.tmp)
                            /\ IF d2.raised
                               THEN /\ pc' = "raised"
                                    /\ UNCHANGED << has_valid_content, valid_apps >>
                               ELSE /\ pc' = IF StartsWith(pkg.name, s_gstreamer)
                                             THEN "codec" ELSE "files"
                                    /\ has_valid_content' = FALSE
                                    /\ valid_apps' = << >>
                    /\ i' = 1
                    /\ n' = n
    /\ last' = NoCall
    /\ UNCHANGED << argv, environ, application_ids, status_html >>

\* What add_application reads of the Build object and of the file system.
Self == [ application_ids   |-> application_ids,
          has_valid_content |-> has_valid_content,
          status_html       |-> status_html ]
Fs == [ appdata           |-> tmp.appdata,
        appdata_extra     |-> environ.appdata_extra,
        screenshots_extra |-> environ.screenshots_extra,
        validator         |-> environ.validator ]

\* "if self.add_application(app): valid_apps.append(app)"
Add(app) ==
    LET r == add_application(Self, app, Fs)
    IN  /\ application_ids' = r.application_ids
        /\ has_valid_content' = r.has_valid_content
        /\ status_html' = r.status_html
        /\ environ' = [ environ EXCEPT !.appdata_extra = r.appdata_extra ]
        /\ valid_apps' = IF r.ret THEN Append(valid_apps, r.app) ELSE valid_apps
        /\ last' = [ op |-> "add_application", arg |-> app, r |-> r ]

Skip ==
    /\ last' = NoCall
    /\ UNCHANGED << application_ids, has_valid_content, status_html, environ,
                    valid_apps >>

\* Lines 309-314: the codec of a gstreamer package.
ProcessCodec ==
    /\ pc = "codec"
    /\ LET codec == argv[n].codec
       IN  IF codec.parse_ok THEN Add(codec.app) ELSE Skip
    /\ pc' = "emit"
    /\ UNCHANGED << argv, n, files, i, tmp, icons, appstream >>

\* The content types build() has a parser for.
ContentTypes == { "application/x-font-ttf", "application/x-font-otf",
                  "application/x-desktop", "application/xml",
                  "application/x-sqlite3" }

\* Lines 317-351: one turn of "for f in files".  Parsing a record that has an
\* icon puts the icon into ./icons.
ProcessFile ==
    /\ pc = "files"
    /\ i <= Len(files)
    /\ LET f     == files[i]
           entry == tmp.files[f]
           app   == IF entry.app.app_id = NoId
                    THEN set_id(entry.app, Basename(f))
                    ELSE entry.app
       IN  IF entry.content_type \notin ContentTypes \/ ~entry.parse_ok
           THEN Skip /\ UNCHANGED icons
           ELSE /\ Add(app)
                /\ icons' = IF app.icon # << >>
                            THEN [ icons EXCEPT !.files = @ \cup { app.icon } ]
                            ELSE icons
    /\ i' = i + 1
    /\ UNCHANGED << argv, pc, n, files, tmp, appstream >>

\* The records are written sorted by id.
SerializeById(apps) ==
    [ k \in 1..Len(apps) |->
          CHOOSE a \in { apps[j] : j \in 1..Len(apps) } :
              Cardinality({ j \in 1..Len(apps) : StrLess(apps[j].app_id, a.app_id) })
                  = k - 1 ]

\* "for app in valid_apps: app.write(xml)": the records written, in the order
\* of the calls.
Serialize(apps) == apps

\* The files are written whether or not the build has valid content.
WriteCatalogAlways(dir, name, apps, icon_files, valid) ==
    [ dir EXCEPT !.files = Overlay(@, Dict1(name, [ xml |-> Serialize(apps),
                                                    tar |-> icon_files ])) ]

\* Lines 353-371: ./appstream after the catalog <name>.xml and the archive
\* <name>-icons.tar were written, if the build has valid content.
WriteCatalog(dir, name, apps, icon_files, valid) ==
    IF valid
    THEN [ dir EXCEPT !.files = Overlay(@, Dict1(name, [ xml |-> Serialize(apps),
                                                        tar |-> icon_files ])) ]
    ELSE dir

\* Lines 353-376: the catalog and the icon archive are written, the staging
\* directories removed, and build() returns to main().
Emit ==
    /\ \/ pc = "files" /\ i > Len(files)
       \/ pc = "emit"
    /\ appstream' = WriteCatalog(appstream, argv[n].name, valid_apps, icons.files,
                                 has_valid_content)
    /\ last' = [ op |-> "emit" ]
    /\ IF environ.APPSTREAM_DEBUG
       THEN UNCHANGED << tmp, icons >>
       ELSE tmp' = NoTmp /\ icons' = NoIcons
    /\ pc' = "main"
    /\ n' = n + 1
    /\ UNCHANGED << argv, environ, application_ids, has_valid_content, status_html,
                    valid_apps, files, i >>

\* main(): "sys.exit(0)" after the last package.
Exit ==
    /\ pc = "main"
    /\ n > Len(argv)
    /\ pc' = "exit"
    /\ last' = NoCall
    /\ UNCHANGED << argv, environ, n, application_ids, has_valid_content,
                    status_html, valid_apps, files, i, tmp, icons, appstream >>

\* main() catches the error and goes on with the next package.
CaughtInMain(k) == [ pc |-> "main", n |-> k + 1 ]

\* "for fn in sys.argv[1:]: job.build(fn)" has no try: an error raised in
\* build(argv[k]) ends main() and the interpreter prints the traceback.
Uncaught(k) == [ pc |-> "traceback", n |-> k ]

\* The StandardError of package_decompress leaves build() and main().
Unwind ==
    /\ pc = "raised"
    /\ pc' = Uncaught(n).pc
    /\ n' = Uncaught(n).n
    /\ last' = NoCall
    /\ UNCHANGED << argv, environ, application_ids, has_valid_content,
                    status_html, valid_apps, files, i, tmp, icons, appstream >>

Init ==
    /\ \E w \in Worlds : argv = w.argv /\ environ = w.environ
    /\ pc = "main"
    /\ n = 1
    /\ application_ids = << >>
    /\ has_valid_content = FALSE
    /\ status_html = FALSE
    /\ valid_apps = << >>
    /\ files = << >>
    /\ i = 1
    /\ tmp = NoTmp
    /\ icons = NoIcons
    /\ appstream = [ exists |-> FALSE, files |-> EmptyDict ]
    /\ last = NoCall

Next == BuildBegin \/ ProcessCodec \/ ProcessFile \/ Emit \/ Unwind \/ Exit

Spec == Init /\ [][Next]_vars

----------------------------------------------------------------------------
(* What the claims speak about *)

\* The step just taken called add_application.
Called == last.op = "add_application"

\* The message add_application logged when it returned False.
Rejection(r) == IF r.ret \/ r.app.log = << >> THEN "" ELSE r.app.log[Len(r.app.log)]

\* The call went on to the override merge: it ended at neither of the two
\* rules before it.
ReachedMerge(r) ==
    Rejection(r) \notin { "application is blacklisted", "duplicate ID" }

\* The call went on to the rules after the override merge.
PassedMerge(r) == ReachedMerge(r) /\ Rejection(r) # "requires AppData"

\* The record the loop of build() makes of the k-th file, and whether it makes
\* one.
RecordOf(k) ==
    LET entry == tmp.files[files[k]]
    IN  IF entry.app.app_id = NoId THEN set_id(entry.app, Basename(files[k]))
        ELSE entry.app
Parsed(k) ==
    /\ tmp.files[files[k]].content_type \in ContentTypes
    /\ tmp.files[files[k]].parse_ok

\* The sidecar the call read was parsed and passed the identity and the
\* licence gate.
PassedGates(arg, r) ==
    /\ r.sidecar # "none"
    /\ r.data.parsed
    /\ r.data.id \in { arg.app_id, arg.app_id_full }
    /\ r.data.licence \in cfg_content_licences

\* The id matches a pattern of the configured id blacklist.
OnBlacklist(app_id) == \E b \in { cfg_id_blacklist[k] : k \in 1..Len(cfg_id_blacklist) } :
                           fnmatch(app_id, b)

Ids(apps) == [ k \in 1..Len(apps) |-> apps[k].app_id ]
Unique(list) == \A j, k \in 1..Len(list) : list[j] = list[k] => j = k

----------------------------------------------------------------------------
(* C1 *)

\* C1: no two records of the accepted list share an id, and so none of an
\* emitted catalog do; a record whose id an earlier parsed record of the same
\* build had is rejected, as a duplicate when the blacklist rule before it
\* lets it pass, and the accepted record of an id is the first parsed with it.
C1_UniqueIds ==
    /\ Unique(Ids(valid_apps))
    /\ \A name \in DOMAIN appstream.files : Unique(Ids(appstream.files[name].xml))
    /\ (Called /\ pc = "files") =>
           LET later == \E k \in 1..(i - 2) :
                            Parsed(k) /\ RecordOf(k).app_id = last.arg.app_id
           IN  later => /\ ~last.r.ret
                        /\ \A k \in 1..Len(valid_apps) : valid_apps[k] # last.r.app
                        /\ Rejection(last.r) \in { "duplicate ID",
                                                   "application is blacklisted" }
                        /\ ~OnBlacklist(last.arg.app_id)
                               => Rejection(last.r) = "duplicate ID"

\* A second record of an id that passes the blacklist was evaluated while the
\* first one is in the accepted list.
C1_Witness ==
    /\ Called /\ pc = "files"
    /\ ~OnBlacklist(last.arg.app_id)
    /\ \E k \in 1..(i - 2) : Parsed(k) /\ RecordOf(k).app_id = last.arg.app_id
    /\ \E k \in 1..Len(valid_apps) : valid_apps[k].app_id = last.arg.app_id

----------------------------------------------------------------------------
(* C2 *)

HasRequired(app) ==
    /\ "C" \in DOMAIN app.names
    /\ "C" \in DOMAIN app.comments
    /\ app.icon # << >>

\* C2: every accepted record, and every record of a catalog, has names["C"],
\* comments["C"] and an icon; a call that reached the rules after the override
\* merge accepts the record if and only if the merged record has the three.
C2_RequiredFields ==
    /\ \A k \in 1..Len(valid_apps) : HasRequired(valid_apps[k])
    /\ \A name \in DOMAIN appstream.files :
           \A k \in 1..Len(appstream.files[name].xml) :
               HasRequired(appstream.files[name].xml[k])
    /\ Called => /\ last.r.ret => HasRequired(last.r.merged) /\ HasRequired(last.r.app)
                 /\ (PassedMerge(last.r) /\ ~HasRequired(last.r.merged))
                        => /\ ~last.r.ret
                           /\ Rejection(last.r) \in { "ignored as no Name",
                                                      "ignored as no Comment",
                                                      "ignored as no Icon" }

\* A record without a native name was accepted with the name of its sidecar.
C2_Witness ==
    /\ Called
    /\ last.r.ret
    /\ "C" \notin DOMAIN last.arg.names
    /\ PassedGates(last.arg, last.r)

----------------------------------------------------------------------------
(* C3 *)

\* C3: a record with a blacklisted id is rejected as blacklisted before
\* anything else is done: no file is looked for, no sidecar read, nothing but
\* the message logged; its id is in neither the registered ids, nor the
\* accepted list, nor a catalog.
C3_Blacklist ==
    /\ \A k \in 1..Len(application_ids) : ~OnBlacklist(application_ids[k])
    /\ \A k \in 1..Len(valid_apps) : ~OnBlacklist(valid_apps[k].app_id)
    /\ \A name \in DOMAIN appstream.files :
           \A k \in 1..Len(appstream.files[name].xml) :
               ~OnBlacklist(appstream.files[name].xml[k].app_id)
    /\ (Called /\ OnBlacklist(last.arg.app_id)) =>
           /\ ~last.r.ret
           /\ last.r.app = LogWrite(last.arg, "application is blacklisted")
           /\ last.r.stats = << >>
           /\ last.r.sidecar = "none"

\* A record with a blacklisted id and a name, a summary and an icon was
\* evaluated.
C3_Witness ==
    /\ Called
    /\ OnBlacklist(last.arg.app_id)
    /\ HasRequired(last.arg)
    /\ ~last.arg.requires_appdata

----------------------------------------------------------------------------
(* C4 *)

Matching(url) ==
    { k \in 1..Len(project_urls) :
          \E m \in 1..Len(project_urls[k].urls) : fnmatch(url, project_urls[k].urls[m]) }
FirstMatch(url) ==
    IF Matching(url) = { } THEN ""
    ELSE project_urls[CHOOSE k \in Matching(url) : \A m \in Matching(url) : k <= m].group
LastMatch(url) ==
    IF Matching(url) = { } THEN ""
    ELSE project_urls[CHOOSE k \in Matching(url) : \A m \in Matching(url) : k >= m].group

\* The call inferred the project group: the merged record has none and has a
\* homepage.
Inferred ==
    /\ Called
    /\ PassedMerge(last.r)
    /\ last.r.merged.project_group = ""
    /\ "homepage" \in DOMAIN last.r.merged.urls

\* C4 as claimed: the group assigned is that of the earliest of GNOME, KDE,
\* XFCE, LXDE, MATE with a pattern that matches the homepage.
C4_FirstMatchWins ==
    Inferred => last.r.app.project_group = FirstMatch(last.r.merged.urls["homepage"])

\* C4 as amended: the group assigned is that of the latest of GNOME, KDE,
\* XFCE, LXDE, MATE with a pattern that matches the homepage, and none when no
\* pattern matches.
C4_LastMatchWins ==
    Inferred => last.r.app.project_group = LastMatch(last.r.merged.urls["homepage"])

\* The group of a homepage that patterns of two groups match was inferred.
C4_Witness ==
    /\ Inferred
    /\ Cardinality(Matching(last.r.merged.urls["homepage"])) > 1

----------------------------------------------------------------------------
(* C5 *)

\* C5: behind the gates the merged names are the sidecar's when it has names
\* and the native ones when it has none, and so for the comments and the
\* sidecar's summaries.
C5_NamesOverride ==
    (Called /\ PassedGates(last.arg, last.r)) =>
        /\ last.r.merged.names =
               IF DOMAIN last.r.data.names # { } THEN last.r.data.names
               ELSE last.arg.names
        /\ last.r.merged.comments =
               IF DOMAIN last.r.data.summaries # { } THEN last.r.data.summaries
               ELSE last.arg.comments

\* A sidecar with names was merged into a record with other names.
C5_Witness ==
    /\ Called
    /\ PassedGates(last.arg, last.r)
    /\ DOMAIN last.arg.names # { }
    /\ DOMAIN last.r.data.names # { }
    /\ last.r.data.names # last.arg.names

----------------------------------------------------------------------------
(* C6 *)

\* C6: behind the gates the merged urls have the keys of both, each key of the
\* sidecar with the sidecar's value and each other key with the native value.
C6_UrlsMerge ==
    (Called /\ PassedGates(last.arg, last.r)) =>
        /\ DOMAIN last.r.merged.urls = DOMAIN last.arg.urls \cup DOMAIN last.r.data.urls
        /\ \A key \in DOMAIN last.r.data.urls :
               last.r.merged.urls[key] = last.r.data.urls[key]
        /\ \A key \in DOMAIN last.arg.urls \ DOMAIN last.r.data.urls :
               last.r.merged.urls[key] = last.arg.urls[key]

\* A sidecar with a bugtracker and no homepage was merged into a record with
\* a homepage.
C6_Witness ==
    /\ Called
    /\ PassedGates(last.arg, last.r)
    /\ "homepage" \in DOMAIN last.arg.urls
    /\ DOMAIN last.r.data.urls = { "bugtracker" }

----------------------------------------------------------------------------
(* C7 *)

\* C7: the step that ends the build of a package writes the catalog and the
\* icon archive of the package when the build accepted a record, and leaves
\* ./appstream as it was when it accepted none; the step raises no error.
C7_EmitIffAccepted ==
    [][ n' = n + 1 =>
            LET accepted == IF pc = "main" THEN << >> ELSE valid_apps
                name     == argv[n].name
            IN  /\ pc' = "main"
                /\ IF accepted # << >>
                   THEN /\ name \in DOMAIN appstream'.files
                        /\ appstream'.files[name].xml = accepted
                        /\ appstream'.files[name].tar = icons.files
                   ELSE appstream' = appstream ]_vars

\* The build of a package with files ended without an accepted record and
\* without a catalog.
C7_Witness ==
    /\ last.op = "emit"
    /\ pc = "main"
    /\ files # << >>
    /\ valid_apps = << >>
    /\ argv[n - 1].name \notin DOMAIN appstream.files

----------------------------------------------------------------------------
(* C8 *)

\* The first file that gave a record of the id of app.
FileOf(app) ==
    CHOOSE k \in 1..Len(files) :
        /\ Parsed(k) /\ RecordOf(k).app_id = app.app_id
        /\ \A m \in 1..(k - 1) : ~(Parsed(m) /\ RecordOf(m).app_id = app.app_id)

\* C8: the records of the accepted list come from files already read, in the
\* order of the files; an accepted record is the last of the list; and the
\* catalog written holds the records of the accepted list, each once, in the
\* order of the list.
C8_CatalogOrder ==
    /\ pc = "files" =>
           /\ \A j \in 1..Len(valid_apps) :
                  \E k \in 1..(i - 1) :
                      Parsed(k) /\ RecordOf(k).app_id = valid_apps[j].app_id
           /\ \A j, k \in 1..Len(valid_apps) :
                  j < k => FileOf(valid_apps[j]) < FileOf(valid_apps[k])
    /\ (Called /\ last.r.ret) => valid_apps[Len(valid_apps)] = last.r.app
    /\ (last.op = "emit" /\ valid_apps # << >>) =>
           /\ argv[n - 1].name \in DOMAIN appstream.files
           /\ appstream.files[argv[n - 1].name].xml = valid_apps

\* A catalog was written whose second record has a smaller id than its first.
C8_Witness ==
    /\ last.op = "emit"
    /\ argv[n - 1].name \in DOMAIN appstream.files
    /\ LET xml == appstream.files[argv[n - 1].name].xml
       IN  /\ xml = valid_apps
           /\ Len(xml) >= 2
           /\ StrLess(xml[2].app_id, xml[1].app_id)

----------------------------------------------------------------------------
(* C9 *)

\* Neither ./tmp/usr/share/appdata nor ../appdata-extra has a sidecar of the
\* record.
NoSidecarFile(app) ==
    /\ app.app_id \notin DOMAIN tmp.appdata
    /\ << app.type_id, app.app_id >> \notin DOMAIN environ.appdata_extra

\* C9: when no sidecar exists, a record that requires one is rejected for it
\* and is not in the accepted list; another record leaves the override merge
\* as it entered it and is accepted or rejected by its own fields.
C9_NoSidecar ==
    (Called /\ ReachedMerge(last.r) /\ NoSidecarFile(last.arg)) =>
        IF last.arg.requires_appdata
        THEN /\ ~last.r.ret
             /\ Rejection(last.r) = "requires AppData"
             /\ \A k \in 1..Len(valid_apps) : valid_apps[k].app_id # last.arg.app_id
        ELSE /\ last.r.merged = last.arg
             /\ PassedMerge(last.r)
             /\ last.r.ret <=> HasRequired(last.arg)
             /\ \A fld \in { "names", "comments", "urls", "descriptions", "icon",
                             "compulsory_for_desktop" } :
                    last.r.app[fld] = last.arg[fld]

\* A record with name, summary and icon that requires a sidecar was rejected
\* because there is none.
C9_Witness ==
    /\ Called
    /\ ReachedMerge(last.r)
    /\ NoSidecarFile(last.arg)
    /\ last.arg.requires_appdata
    /\ HasRequired(last.arg)
    /\ ~last.r.ret

----------------------------------------------------------------------------
(* C10 *)

\* The call read a sidecar file that does not parse.
Unparsed == Called /\ ReachedMerge(last.r) /\ last.r.sidecar # "none" /\ ~last.r.data.parsed

\* C10 as claimed: when the sidecar of a record exists and does not parse, a
\* record that requires a sidecar is rejected, and another one goes on with
\* its native fields.
C10_UnparsedAsMissing ==
    Unparsed =>
        IF last.arg.requires_appdata
        THEN ~last.r.ret
        ELSE /\ PassedMerge(last.r)
             /\ \A fld \in { "names", "comments", "urls", "descriptions", "icon",
                             "project_group", "compulsory_for_desktop" } :
                    last.r.merged[fld] = last.arg[fld]

\* C10 as amended: when the sidecar of a record exists and does not parse, the
\* record goes on to the rules after the merge with its native fields and a
\* warning in its log, whether or not it requires a sidecar, and is accepted
\* or rejected by its native fields.
C10_UnparsedProceeds ==
    Unparsed =>
        /\ PassedMerge(last.r)
        /\ [ last.r.merged EXCEPT !.log = << >> ] = [ last.arg EXCEPT !.log = << >> ]
        /\ last.r.merged.log # << >>
        /\ last.r.merged.log[Len(last.r.merged.log)] = "could not be parsed"
        /\ last.r.ret <=> HasRequired(last.arg)

\* A record that requires a sidecar was accepted though its sidecar does not
\* parse.
C10_Witness ==
    /\ Unparsed
    /\ last.arg.requires_appdata
    /\ last.r.ret

----------------------------------------------------------------------------
(* C11 *)

\* build() has just come to its loop over the files, or to the codec, of the
\* package argv[n].
BuildStarted == pc \in { "files", "codec" } /\ i = 1 /\ last = NoCall

\* An earlier file of the package being built gave a record of the id.
SeenInPackage(app_id) ==
    /\ pc = "files"
    /\ \E k \in 1..(i - 2) : Parsed(k) /\ RecordOf(k).app_id = app_id

\* C11: when the build of a package comes to its first record the list of ids
\* of the session is empty, and a record is rejected as a duplicate only for an
\* id a record of the same package had before it.
C11_SessionReset ==
    /\ BuildStarted => application_ids = << >>
    /\ (Called /\ Rejection(last.r) = "duplicate ID")
           => SeenInPackage(last.arg.app_id)

----------------------------------------------------------------------------
(* C12 *)

\* C12: a record that is rejected by another rule than the duplicate rule
\* leaves its id out of the list of ids of the session, and in the build of the
\* first package the list holds the ids of the accepted records and no other.
C12_RegisteredOnAcceptance ==
    /\ (Called /\ ~last.r.ret /\ Rejection(last.r) # "duplicate ID")
           => ~InList(last.arg.app_id, application_ids)
    /\ n = 1 => application_ids = Ids(valid_apps)

----------------------------------------------------------------------------
(* C13 *)

\* The call read a sidecar that parses and fails the identity or the licence
\* gate.
FailedGate ==
    /\ Called /\ ReachedMerge(last.r)
    /\ last.r.sidecar # "none" /\ last.r.data.parsed
    /\ ~PassedGates(last.arg, last.r)

\* C13: a parsed sidecar that fails the identity or the licence gate changes
\* no field of the record, only its log, where the warning of the gate is the
\* last entry; the record goes on to the rules after the merge and is accepted
\* or rejected by its native fields.
C13_GateFailure ==
    FailedGate =>
        /\ PassedMerge(last.r)
        /\ [ last.r.merged EXCEPT !.log = << >> ] = [ last.arg EXCEPT !.log = << >> ]
        /\ last.r.merged.log # << >>
        /\ last.r.merged.log[Len(last.r.merged.log)]
               = IF last.r.data.id \in { last.arg.app_id, last.arg.app_id_full }
                 THEN "licence is not okay" ELSE "id does not match"
        /\ \A fld \in { "names", "comments", "urls", "descriptions",
                        "compulsory_for_desktop" } : last.r.app[fld] = last.arg[fld]
        /\ last.r.ret <=> HasRequired(last.arg)

\* A record was accepted with its native fields though its sidecar, of the
\* record's id, has a licence that is not allowed and names of its own.
C13_Witness ==
    /\ FailedGate
    /\ last.r.data.id = last.arg.app_id
    /\ last.r.data.names # EmptyDict /\ last.r.data.names # last.arg.names
    /\ last.r.ret

----------------------------------------------------------------------------
(* C14 *)

\* The sidecar the call read left its mark on the record: its descriptions
\* when it passed the gates, the warning when it does not parse.
Applied(r) ==
    /\ r.data.parsed /\ r.data.id \in { r.merged.app_id, r.merged.app_id_full }
          /\ r.data.licence \in cfg_content_licences
          => r.merged.descriptions = r.data.descriptions
    /\ ~r.data.parsed
          => /\ r.merged.log # << >>
             /\ r.merged.log[Len(r.merged.log)] = "could not be parsed"

\* C14: a call of add_application that comes to the sidecar of its record
\* reads the one the package ships whenever there is one, and then deletes the
\* extra one of the id if there is one; it reads the extra one when the package
\* ships none, and does not delete it; no other file of appdata-extra is
\* touched.
C14_SidecarResolution ==
    [][ (last'.op = "add_application" /\ ReachedMerge(last'.r)) =>
            LET arg     == last'.arg
                r       == last'.r
                key     == << arg.type_id, arg.app_id >>
                shipped == arg.app_id \in DOMAIN tmp.appdata
                extra   == key \in DOMAIN environ.appdata_extra
            IN  /\ shipped
                      => /\ r.sidecar = "appdata"
                         /\ r.data = tmp.appdata[arg.app_id]
                         /\ Applied(r)
                         /\ key \notin DOMAIN environ'.appdata_extra
                         /\ \A k \in (DOMAIN environ.appdata_extra) \ { key } :
                                /\ k \in DOMAIN environ'.appdata_extra
                                /\ environ'.appdata_extra[k] = environ.appdata_extra[k]
                /\ (~shipped /\ extra)
                      => /\ r.sidecar = "appdata-extra"
                         /\ r.data = environ.appdata_extra[key]
                         /\ Applied(r)
                         /\ environ'.appdata_extra = environ.appdata_extra
                /\ (~shipped /\ ~extra)
                      => /\ r.sidecar = "none"
                         /\ environ'.appdata_extra = environ.appdata_extra
      ]_vars

\* Both sidecars existed: the extra one is gone, and the descriptions of the
\* record are those of the shipped one, which the extra one did not have.
C14_Witness ==
    /\ Called /\ last.r.sidecar = "appdata"
    /\ \E k \in 1..Len(last.r.app.log) : last.r.app.log[k] = "deleting"
    /\ << last.arg.type_id, last.arg.app_id >> \notin DOMAIN environ.appdata_extra
    /\ PassedGates(last.arg, last.r)
    /\ last.r.data.descriptions = EmptyDict
    /\ last.r.app.descriptions = EmptyDict

----------------------------------------------------------------------------
(* C15 *)

\* The files the package and its companion packages ship, and the icons their
\* records name.
ShippedBy(pkg) == { pkg } \cup ExtraPackages(pkg.name, environ)
PathsOf(pkg) == UNION { DOMAIN q.files : q \in ShippedBy(pkg) }
IconsOf(pkg) ==
    UNION { { q.files[f].app.icon : f \in DOMAIN q.files } : q \in ShippedBy(pkg) }

\* C15: when the build of a package comes to its first file, ./tmp holds files
\* of this package and its companions only and ./icons is empty, with and
\* without the debug flag; and the icon archive a build writes holds no icon
\* but those of records of its package.
C15_StagingRecreated ==
    /\ BuildStarted => /\ DOMAIN tmp.files \subseteq PathsOf(argv[n])
                       /\ icons.files = { }
    /\ (last.op = "emit" /\ has_valid_content)
           => appstream.files[argv[n - 1].name].tar \subseteq IconsOf(argv[n - 1])

----------------------------------------------------------------------------
(* C16 *)

\* C16 as claimed: the build of a package whose extraction fails evaluates no
\* record and writes no catalog, and main() goes on with the package that
\* follows it.
C16_AbortsOnlyPackage ==
    [][ /\ pc' = "raised" => appstream'.files = appstream.files
        /\ pc = "raised" =>
              /\ last.op = "none"
              /\ appstream'.files = appstream.files
              /\ n < Len(argv) => (pc' = "main" /\ n' = n + 1)
      ]_vars

\* C16 as amended: the build of a package whose extraction fails evaluates no
\* record and writes no catalog, and the error ends the run: nothing is done
\* after it, so the packages that follow are not processed.
C16_AbortsRun ==
    [][ /\ pc' = "raised" => appstream'.files = appstream.files
        /\ pc = "raised" =>
              /\ last.op = "none"
              /\ pc' = "traceback" /\ n' = n
              /\ UNCHANGED << application_ids, valid_apps, appstream, tmp, icons >>
        /\ pc = "traceback" => FALSE
      ]_vars

\* The run has ended in the error of a package that is not the last one of the
\* command line, and no catalog of that package or of a later one exists.
C16_Witness ==
    /\ pc = "traceback"
    /\ n < Len(argv)
    /\ \A k \in n..Len(argv) : argv[k].name \notin DOMAIN appstream.files

----------------------------------------------------------------------------
(* C17 *)

\* C17: the descriptions of the record a call of add_application leaves are
\* those of the sidecar when the sidecar it read passed the identity and the
\* licence gate, empty ones included, and the native ones in every other case.
C17_Descriptions ==
    Called =>
        /\ last.r.app.descriptions = last.r.merged.descriptions
        /\ last.r.app.descriptions =
               IF PassedGates(last.arg, last.r) THEN last.r.data.descriptions
               ELSE last.arg.descriptions

\* A sidecar without descriptions passed the gates and cleared the native
\* description of a record that was then accepted.
C17_Witness ==
    /\ Called /\ last.r.ret
    /\ PassedGates(last.arg, last.r)
    /\ last.arg.descriptions # EmptyDict
    /\ last.r.data.descriptions = EmptyDict
    /\ \E k \in 1..Len(valid_apps) :
           /\ valid_apps[k].app_id = last.arg.app_id
           /\ valid_apps[k].descriptions = EmptyDict

----------------------------------------------------------------------------
(* C18 *)

\* The file name ends in ".png".
IsPng(f) == Len(f) >= 4 /\ SubSeq(f, Len(f) - 3, Len(f)) = << ".", "p", "n", "g" >>

\* The list holds the images of the directory, each once, by rising file name,
\* and nothing else.
ExactlyImagesOf(screenshots, dir) ==
    /\ Len(screenshots) = Cardinality({ f \in dir : IsPng(f) })
    /\ \A k \in 1..Len(screenshots) :
           /\ screenshots[k].kind = "file"
           /\ screenshots[k].src \in dir /\ IsPng(screenshots[k].src)
           /\ \A j \in 1..(k - 1) : StrLess(screenshots[j].src, screenshots[k].src)

\* C18: a record that comes to the required fields is accepted exactly when
\* the merged record has its name, summary and icon, with or without a
\* directory of curated screenshots; an accepted record with such a directory
\* has exactly the images of the directory as its screenshots, by file name,
\* and one without keeps the list the merge left.
C18_ScreenshotOverrides ==
    (Called /\ PassedMerge(last.r)) =>
        /\ last.r.ret <=> HasRequired(last.r.merged)
        /\ last.r.ret =>
               IF last.arg.app_id \in DOMAIN environ.screenshots_extra
               THEN ExactlyImagesOf(last.r.app.screenshots,
                                    environ.screenshots_extra[last.arg.app_id])
               ELSE last.r.app.screenshots = last.r.merged.screenshots

\* The merge had appended the screenshots of the sidecar, and the accepted
\* record has the two curated images instead.
C18_Witness ==
    /\ Called /\ last.r.ret
    /\ last.arg.app_id \in DOMAIN environ.screenshots_extra
    /\ \E f \in environ.screenshots_extra[last.arg.app_id] : ~IsPng(f)
    /\ Len(last.r.merged.screenshots) > Len(last.arg.screenshots)
    /\ Len(last.r.app.screenshots) = 2
    /\ \A k \in 1..Len(last.r.app.screenshots) : last.r.app.screenshots[k].kind = "file"

----------------------------------------------------------------------------
(* C19 *)

\* The path matches one of the configured globs of interesting files.
Interesting(f) ==
    \E g \in { cfg_interesting_installed_files[k] :
                   k \in 1..Len(cfg_interesting_installed_files) } : globmatch(f, g)

Listed(f) == \E k \in 1..Len(files) : files[k] = f

\* C19 as claimed: in the loop over the files ./tmp holds the files of the
\* package and of its companion packages, and every interesting one of them is
\* in the list the loop dispatches to the parsers.
C19_CompanionFilesParsed ==
    pc = "files" =>
        /\ DOMAIN tmp.files = PathsOf(argv[n])
        /\ \A f \in DOMAIN tmp.files : Interesting(f) => Listed(f)

\* C19 as amended: in the loop over the files ./tmp holds the files of the
\* package and of its companion packages, and the list the loop dispatches to
\* the parsers holds the interesting files the main package ships and no
\* other: a file only a companion package ships is not parsed.
C19_MainPackageFiles ==
    pc = "files" =>
        /\ DOMAIN tmp.files = PathsOf(argv[n])
        /\ \A f \in DOMAIN tmp.files :
               Listed(f) <=> (Interesting(f) /\ f \in DOMAIN argv[n].files)
        /\ Called => files[i - 1] \in DOMAIN argv[n].files

\* The loop is through, the record of the main package is accepted, and an
\* interesting file of the companion package lies in ./tmp and was not read.
C19_Witness ==
    /\ pc = "files" /\ i > Len(files)
    /\ valid_apps # << >>
    /\ \E f \in (DOMAIN tmp.files) \ (DOMAIN argv[n].files) :
           /\ Interesting(f)
           /\ tmp.files[f].parse_ok
           /\ ~Listed(f)
           /\ \A k \in 1..Len(application_ids) :
                  application_ids[k] # set_id(tmp.files[f].app, Basename(f)).app_id

----------------------------------------------------------------------------
(* C20 *)

\* C20: from the reset of lines 306-307 to the test of line 354 the flag
\* has_valid_content is true exactly when valid_apps is not empty; no catalog
\* is without records, and a build that ends with accepted records has written
\* all of them, in their order.
C20_FlagIffAccepted ==
    /\ pc \in { "codec", "files", "emit" }
           => (has_valid_content <=> valid_apps # << >>)
    /\ \A name \in DOMAIN appstream.files : appstream.files[name].xml # << >>
    /\ (last.op = "emit" /\ valid_apps # << >>)
           => /\ argv[n - 1].name \in DOMAIN appstream.files
              /\ appstream.files[argv[n - 1].name].xml = valid_apps

\* A build after one that wrote a catalog ended with the flag false and no
\* accepted record, and wrote no catalog.
C20_Witness ==
    /\ last.op = "emit"
    /\ ~has_valid_content /\ valid_apps = << >>
    /\ appstream.files # EmptyDict
    /\ argv[n - 1].name \notin DOMAIN appstream.files

====
